---- MODULE Spec2Model ----
(***************************************************************************)
(* A model of the RagFlow HTTP client binding (src/ragflow) and of the     *)
(* batch upload script (src/upload_documents_with_parse.py).               *)
(*                                                                         *)
(* JSON values are tagged records, so that values of different JSON types  *)
(* are never equal:                                                        *)
(*   [t |-> "null"]  [t |-> "int", n |-> 0]  [t |-> "bool", b |-> FALSE]   *)
(*   [t |-> "str", s |-> "m1"]  [t |-> "list", items |-> <<...>>]          *)
(*   [t |-> "obj", map |-> [key |-> value]]                                *)
(* Python's None is the JSON null.                                         *)
(***************************************************************************)
EXTENDS Integers, Sequences, FiniteSets, TLC

VARIABLES
    hr_pc, response, hr_result,         \* handle_response applied to a mapping
    pc, call,                           \* one call of a RagFlowClient method
    b_pc,                               \* the stage of upload_and_parse_documents
    api_key,                            \* whether RAGFLOW_API_KEY is set
    doc_dir,                            \* what the path doc_dir holds
    datasets, dataset_id,               \* the lookup's result and the id taken from it
    file_paths, idx,                    \* the selected files and the loop's position
    open_files,                         \* the files the script holds open
    uploaded_doc_ids,
    in_flight,                          \* the exception leaving the `with` block
    parse_result,
    events,                             \* the calls made and the lines printed, in order
    b_outcome                           \* how the run ended

hrVars == <<hr_pc, response, hr_result>>
clientVars == <<pc, call>>
batchVars ==
    <<b_pc, api_key, doc_dir, datasets, dataset_id, file_paths, idx, open_files,
      uploaded_doc_ids, in_flight, parse_result, events, b_outcome>>
vars == <<hrVars, clientVars, batchVars>>

-----------------------------------------------------------------------------
(* JSON values *)

None == [t |-> "null"]
JInt(n) == [t |-> "int", n |-> n]
JBool(b) == [t |-> "bool", b |-> b]
JStr(s) == [t |-> "str", s |-> s]
JList(items) == [t |-> "list", items |-> items]
JObj(map) == [t |-> "obj", map |-> map]

\* dict.get(key, default)
Get(map, key, default) == IF key \in DOMAIN map THEN map[key] ELSE default

\* Python's `value != 0`: an int 0 and the bool False both compare equal to 0
NotEqualZero(v) ==
    ~ ((v.t = "int" /\ v.n = 0) \/ (v.t = "bool" /\ v.b = FALSE))

\* Python's truthiness of a JSON value (`if docs:`, `if not datasets:`)
Truthy(v) ==
    CASE v.t = "null" -> FALSE
      [] v.t = "int" -> v.n # 0
      [] v.t = "bool" -> v.b
      [] v.t = "str" -> v.s # ""
      [] v.t = "list" -> Len(v.items) > 0
      [] v.t = "obj" -> DOMAIN v.map # {}

-----------------------------------------------------------------------------
(* Outcomes of a call: a normal return of a value, or a raised exception   *)
(* whose message is the sequence of the parts the code formats it from.    *)

Return(value) == [kind |-> "return", value |-> value]
Raise(exc, parts) == [kind |-> "raise", exc |-> exc, message |-> parts]
Pending == [kind |-> "pending"]

Raised(o) == o.kind = "raise"

\* the text a message part shows for a JSON value
Text(v) == IF v.t = "str" THEN v.s ELSE v.t

-----------------------------------------------------------------------------
(* utils.handle_response *)

\* a plausible slip: `data` is returned whenever the key is present, null or not
handle_response_present(resp) ==
    IF "code" \in DOMAIN resp
    THEN IF NotEqualZero(Get(resp, "code", None))
         THEN Raise("APIError", <<"API request failed, error: ", Text(Get(resp, "message", JStr("unknown error")))>>)
         ELSE IF "data" \in DOMAIN resp THEN Return(resp["data"]) ELSE Return(JObj(resp))
    ELSE Return(JObj(resp))

handle_response(resp) ==
    IF "code" \in DOMAIN resp
    THEN IF NotEqualZero(Get(resp, "code", None))
         THEN Raise("APIError", <<"API request failed, error: ", Text(Get(resp, "message", JStr("unknown error")))>>)
         ELSE LET data == Get(resp, "data", None)
              IN  IF data # None THEN Return(data) ELSE Return(JObj(resp))
    ELSE Return(JObj(resp))

-----------------------------------------------------------------------------
(* The decoded JSON mappings the server can answer with *)

Keys == {"code", "message", "data"}
CodeValues == {JInt(0), JInt(102), JBool(FALSE), None}
MessageValues == {JStr("m1"), JStr("m2")}
Doc(id) == JObj([id |-> JStr(id)])

\* the fields models.Dataset, models.Chunk and models.ChatCompletionResponse
\* declare without a default
DatasetRequired ==
    {"id", "name", "embedding_model", "chunk_method", "parser_config", "create_date",
     "update_date", "chunk_count", "document_count", "token_num", "status"}
ChunkRequired ==
    {"id", "dataset_id", "document_id", "content", "chunk_token_count", "delimiter",
     "create_time", "update_time"}
ChatCompletionRequired == {"id", "choices", "created", "model", "object", "usage"}

DatasetPayload == JObj([k \in DatasetRequired |-> JStr(k)])
ChunkPayload == JObj([k \in ChunkRequired |-> JStr(k)])
ChatPayload == [k \in ChatCompletionRequired |-> JStr(k)]

DataValues ==
    {None, JList(<<>>), JList(<<Doc("d1")>>), JList(<<DatasetPayload>>),
     DatasetPayload, ChunkPayload, JBool(TRUE)}

Mappings ==
    { [k \in ks |-> IF k = "code" THEN c ELSE IF k = "message" THEN m ELSE d] :
        ks \in SUBSET Keys, c \in CodeValues, m \in MessageValues, d \in DataValues }

\* what response.json() finds: a body that is no JSON, or a JSON value
InvalidBody == [kind |-> "invalid"]
JsonBody(v) == [kind |-> "json", value |-> v]
Bodies ==
    {InvalidBody, JsonBody(JList(<<>>)), JsonBody(JObj(ChatPayload))}
    \cup {JsonBody(JObj(m)) : m \in Mappings}

Statuses == {200, 400, 401, 404, 500}

-----------------------------------------------------------------------------
(* RagFlowClient._request on the server's answer `resp` *)

RawResponse(resp) == [t |-> "response", resp |-> resp]

\* data.get on a decoded body that is no mapping
NoGet == Raise("AttributeError", <<"object has no attribute 'get'">>)

\* a plausible slip: every status >= 400 raises APIError
request_flat(resp, stream) ==
    IF stream THEN Return(RawResponse(resp))
    ELSE IF resp.body.kind = "invalid"
    THEN Raise("APIError", <<"Invalid JSON response: ", "text">>)
    ELSE LET data == resp.body.value
         IN  IF resp.status >= 400
             THEN IF data.t # "obj" THEN NoGet
                  ELSE Raise("APIError", <<"API request failed: ",
                                Text(Get(data.map, "message", JStr("Unknown error")))>>)
             ELSE Return(data)

request(resp, stream) ==
    IF stream THEN Return(RawResponse(resp))
    ELSE IF resp.body.kind = "invalid"
    THEN Raise("APIError", <<"Invalid JSON response: ", "text">>)
    ELSE LET data == resp.body.value
         IN  IF resp.status >= 400
             THEN IF data.t # "obj" THEN NoGet
                  ELSE IF resp.status = 401
                  THEN Raise("AuthenticationError",
                             <<Text(Get(data.map, "message", JStr("Authentication failed")))>>)
                  ELSE IF resp.status = 404
                  THEN Raise("ResourceNotFoundError",
                             <<Text(Get(data.map, "message", JStr("Resource not found")))>>)
                  ELSE Raise("APIError", <<"API request failed: ",
                                Text(Get(data.map, "message", JStr("Unknown error")))>>)
             ELSE Return(data)

\* handle_response on what _request returned: `"code" in response` is a
\* membership test on a list and a TypeError on null, a number or a boolean
handle_response_value(v) ==
    CASE v.t = "obj" -> handle_response(v.map)
      [] v.t = "list" -> Return(v)
      [] OTHER -> Raise("TypeError", <<"argument is not iterable">>)

\* Model(**value): pydantic validates the declared fields
Construct(required, v) ==
    IF v.t # "obj" THEN Raise("TypeError", <<"argument after ** must be a mapping">>)
    ELSE IF required \subseteq DOMAIN v.map
    THEN Return([t |-> "model", fields |-> v.map])
    ELSE Raise("pydantic.ValidationError", <<"Field required">>)

-----------------------------------------------------------------------------
(* The stream branch of create_chat_completion. A line is the sequence of  *)
(* its characters. json.loads is modelled by a recogniser of the JSON      *)
(* grammar over the characters the lines use (true, integers, strings      *)
(* without escapes, arrays, objects) and by the parsed value in canonical  *)
(* text: the characters with the whitespace outside strings removed.       *)

Digits == {"0", "1", "2"}

RECURSIVE SkipWs(_, _)
SkipWs(s, i) == IF i <= Len(s) /\ s[i] = " " THEN SkipWs(s, i + 1) ELSE i

RECURSIVE SkipDigits(_, _)
SkipDigits(s, i) == IF i <= Len(s) /\ s[i] \in Digits THEN SkipDigits(s, i + 1) ELSE i

\* the position after the closing quote of the string opened at i - 1, or 0
RECURSIVE CloseString(_, _)
CloseString(s, i) ==
    IF i > Len(s) THEN 0 ELSE IF s[i] = "\"" THEN i + 1 ELSE CloseString(s, i + 1)

\* the position after the JSON value that starts at i, or 0 when there is none
RECURSIVE ParseValue(_, _)
RECURSIVE ParseElements(_, _)
RECURSIVE ParseMembers(_, _)
ParseValue(s, i) ==
    IF i > Len(s) THEN 0
    ELSE CASE s[i] = "t" ->
                IF i + 3 <= Len(s) /\ SubSeq(s, i, i + 3) = <<"t", "r", "u", "e">>
                THEN i + 4 ELSE 0
           [] s[i] = "\"" -> CloseString(s, i + 1)
           [] s[i] = "0" -> i + 1
           [] s[i] \in Digits \ {"0"} -> SkipDigits(s, i + 1)
           [] s[i] = "[" ->
                LET j == SkipWs(s, i + 1)
                IN  IF j <= Len(s) /\ s[j] = "]" THEN j + 1 ELSE ParseElements(s, j)
           [] s[i] = "{" ->
                LET j == SkipWs(s, i + 1)
                IN  IF j <= Len(s) /\ s[j] = "}" THEN j + 1 ELSE ParseMembers(s, j)
           [] OTHER -> 0
ParseElements(s, i) ==
    LET e == ParseValue(s, i)
        j == SkipWs(s, e)
    IN  IF e = 0 \/ j > Len(s) THEN 0
        ELSE IF s[j] = "]" THEN j + 1
        ELSE IF s[j] = "," THEN ParseElements(s, SkipWs(s, j + 1))
        ELSE 0
ParseMembers(s, i) ==
    LET k == IF i <= Len(s) /\ s[i] = "\"" THEN CloseString(s, i + 1) ELSE 0
        c == SkipWs(s, k)
        e == IF k = 0 \/ c > Len(s) \/ s[c] # ":" THEN 0 ELSE ParseValue(s, SkipWs(s, c + 1))
        j == SkipWs(s, e)
    IN  IF e = 0 \/ j > Len(s) THEN 0
        ELSE IF s[j] = "}" THEN j + 1
        ELSE IF s[j] = "," THEN ParseMembers(s, SkipWs(s, j + 1))
        ELSE 0

\* json.loads(s) succeeds: one value, surrounded by whitespace only
IsJson(s) ==
    LET e == ParseValue(s, SkipWs(s, 1))
    IN  e # 0 /\ SkipWs(s, e) = Len(s) + 1

\* the parsed value: the text without the whitespace outside strings
RECURSIVE Canonical(_, _)
Canonical(s, inString) ==
    IF s = <<>> THEN <<>>
    ELSE IF Head(s) = "\"" THEN <<Head(s)>> \o Canonical(Tail(s), ~inString)
    ELSE IF Head(s) = " " /\ ~inString THEN Canonical(Tail(s), inString)
    ELSE <<Head(s)>> \o Canonical(Tail(s), inString)
Loads(s) == [t |-> "json", text |-> Canonical(s, FALSE)]

\* str.lstrip(chars): drops every leading character that is in `chars`
RECURSIVE LStrip(_, _)
LStrip(s, chars) ==
    IF s # <<>> /\ Head(s) \in chars THEN LStrip(Tail(s), chars) ELSE s

\* str.strip(): drops leading and trailing whitespace
RECURSIVE RStripWs(_)
RStripWs(s) ==
    IF s # <<>> /\ s[Len(s)] = " " THEN RStripWs(SubSeq(s, 1, Len(s) - 1)) ELSE s
Strip(s) == RStripWs(LStrip(s, {" "}))

DataPrefix == <<"d", "a", "t", "a", ":", " ">>

\* line.decode("utf-8").lstrip("data: ").strip()
json_line(line) == Strip(LStrip(line, {DataPrefix[i] : i \in 1..Len(DataPrefix)}))

\* the loop over response.iter_lines()
RECURSIVE StreamChunks(_)
StreamChunks(lines) ==
    IF lines = <<>> THEN <<>>
    ELSE LET line == Head(lines)
             rest == StreamChunks(Tail(lines))
         IN  IF line = <<>> THEN rest
             ELSE IF json_line(line) = <<>> THEN rest
             ELSE IF IsJson(json_line(line)) THEN <<Loads(json_line(line))>> \o rest
             ELSE rest

-----------------------------------------------------------------------------
(* The facade methods of RagFlowClient: the outcome of each on the         *)
(* server's answer `resp`.                                                 *)

\* a plausible slip: the whole call sits inside the try
create_chat_completion_swallow(resp, stream) ==
    IF stream THEN Return(JList(StreamChunks(resp.lines)))
    ELSE LET r == request(resp, FALSE)
             h == handle_response_value(r.value)
         IN  IF Raised(r) THEN (IF r.exc = "APIError" THEN Return(None) ELSE r)
             ELSE IF Raised(h) THEN (IF h.exc = "APIError" THEN Return(None) ELSE h)
             ELSE Construct(ChatCompletionRequired, h.value)

create_chat_completion(resp, stream) ==
    IF stream THEN Return(JList(StreamChunks(resp.lines)))
    ELSE LET r == request(resp, FALSE)
             h == handle_response_value(r.value)
         IN  IF Raised(r) THEN r
             ELSE IF Raised(h) THEN (IF h.exc = "APIError" THEN Return(None) ELSE h)
             ELSE Construct(ChatCompletionRequired, h.value)

create_dataset(resp) ==
    LET r == request(resp, FALSE)
        h == handle_response_value(r.value)
    IN  IF Raised(r) THEN r
        ELSE IF Raised(h) THEN h
        ELSE Construct(DatasetRequired, h.value)

\* [models.Dataset(**item) for item in ...]: the first item that fails raises
RECURSIVE ConstructAll(_, _)
ConstructAll(required, items) ==
    IF items = <<>> THEN Return(JList(<<>>))
    ELSE LET first == Construct(required, Head(items))
             rest == ConstructAll(required, Tail(items))
         IN  IF Raised(first) THEN first
             ELSE IF Raised(rest) THEN rest
             ELSE Return(JList(<<first.value>> \o rest.value.items))

list_datasets(resp) ==
    LET r == request(resp, FALSE)
        h == handle_response_value(r.value)
    IN  IF Raised(r) THEN r
        ELSE IF Raised(h) THEN h
        ELSE CASE h.value.t = "list" -> ConstructAll(DatasetRequired, h.value.items)
               [] h.value.t = "obj" /\ DOMAIN h.value.map = {} -> Return(JList(<<>>))
               [] h.value.t = "obj" /\ DOMAIN h.value.map # {} ->
                    Construct(DatasetRequired, JStr("key"))
               [] OTHER -> Raise("TypeError", <<"object is not iterable">>)

\* delete_datasets, update_dataset, update_document, update_chunk and
\* delete_chunk: the answer of _request is dropped
request_only(resp) ==
    LET r == request(resp, FALSE)
    IN  IF Raised(r) THEN r ELSE Return(None)

\* a plausible slip: the status of the answer is not looked at
upload_documents_unchecked(resp) ==
    IF resp.body.kind = "invalid"
    THEN Raise("APIError", <<"Invalid JSON response: ", "text">>)
    ELSE LET data == resp.body.value
         IN  IF data.t # "obj" THEN NoGet
             ELSE Return(Get(data.map, "data", JList(<<>>)))

upload_documents(resp) ==
    IF resp.body.kind = "invalid"
    THEN Raise("APIError", <<"Invalid JSON response: ", "text">>)
    ELSE LET data == resp.body.value
         IN  IF data.t # "obj" THEN NoGet
             ELSE IF resp.status >= 400
             THEN Raise("APIError", <<"API request failed: ",
                           Text(Get(data.map, "message", JStr("Unknown error")))>>)
             ELSE Return(Get(data.map, "data", JList(<<>>)))

download_document(resp) ==
    IF resp.status >= 400
    THEN IF resp.body.kind = "invalid"
         THEN Raise("APIError", <<"Failed to download document: ", "text">>)
         ELSE IF resp.body.value.t # "obj" THEN NoGet
         ELSE Raise("APIError", <<"Failed to download document: ",
                       Text(Get(resp.body.value.map, "message", JStr("Unknown error")))>>)
    ELSE Return(None)

list_chunks(resp) == request(resp, FALSE)

\* retrieve_chunks and parse_documents
request_handled(resp) ==
    LET r == request(resp, FALSE)
    IN  IF Raised(r) THEN r ELSE handle_response_value(r.value)

get_chunk(resp) ==
    LET h == request_handled(resp)
    IN  IF Raised(h) THEN h ELSE Construct(ChunkRequired, h.value)

-----------------------------------------------------------------------------
(* The body or the query parameters each method sends, from the optional   *)
(* arguments `a` of the call; the required arguments are fixed values.     *)

Required == JStr("given")

\* the entries of `full` whose key is in `keys`
Restrict(full, keys) == [k \in keys |-> full[k]]

create_dataset_data(a) ==
    [name |-> Required, embedding_model |-> a.embedding_model,
     description |-> a.description, chunk_method |-> JStr("naive"),
     parser_config |-> IF Truthy(a.parser_config) THEN a.parser_config ELSE JObj(<<>>),
     permission |-> JStr("me")]

list_datasets_params(a) ==
    LET full == [page |-> JInt(1), page_size |-> JInt(30), orderby |-> JStr("create_time"),
                 desc |-> JBool(TRUE), name |-> a.name, id |-> a.dataset_id]
    IN  Restrict(full, {"page", "page_size", "orderby", "desc"}
                       \cup {k \in {"name", "id"} : Truthy(full[k])})

\* update_dataset and update_document: `if value:` before each key
truthy_data(a) == Restrict(a, {k \in DOMAIN a : Truthy(a[k])})

\* update_chunk: `if value is not None:` before each key
not_none_data(a) == Restrict(a, {k \in DOMAIN a : a[k] # None})

retrieve_chunks_data(a) ==
    LET full == [question |-> Required, dataset_ids |-> a.dataset_ids,
                 document_ids |-> a.document_ids, page |-> JInt(1), page_size |-> JInt(30),
                 similarity_threshold |-> JStr("0.2"),
                 vector_similarity_weight |-> JStr("0.3"), top_k |-> JInt(1024),
                 rerank_id |-> a.rerank_id, keyword |-> JBool(FALSE),
                 highlight |-> JBool(FALSE)]
    IN  Restrict(full, {k \in DOMAIN full : full[k] # None})

chat_data(stream) ==
    [model |-> JStr("model"), messages |-> Required, stream |-> JBool(stream)]

list_chunks_params ==
    [page |-> JInt(1), page_size |-> JInt(30), orderby |-> JStr("create_time"),
     desc |-> JBool(TRUE)]

NoArgs == [k \in {} |-> None]
NoData == [k \in {} |-> None]

-----------------------------------------------------------------------------
(* Specification of the client: one call at a time (the client is          *)
(* synchronous and keeps no state between calls). `call` records the       *)
(* method, its optional arguments, what was sent, the server's answer,     *)
(* what _request gave (Pending where the method does not use it) and the   *)
(* outcome the caller sees.                                                *)

MaxLines == 3

LineSet ==
    { <<>>,
      <<"d","a","t","a",":"," ","{","\"","i","\"",":","1","}">>,
      <<"g","a","r","b","a","g","e">>,
      <<"d","a","t","a",":"," ","t","r","u","e">>,
      <<"d","a","t","a",":"," ","[","1",","," ","2","]">>,
      <<"d","a","t","a",":","1">>,
      <<"a","1">>,
      <<"1"," ">>,
      <<" "," ">> }

SeqsUpTo(S, n) == UNION { [1..k -> S] : k \in 0..n }

Responses == [status : Statuses, body : Bodies, lines : {<<>>}]
StreamResponses == [status : Statuses, body : {InvalidBody}, lines : SeqsUpTo(LineSet, MaxLines)]

OptValues == {None, JStr("v")}
Args(names) == [names -> OptValues]

NoCall == [op |-> "none"]
Call(op, a, sent, resp, transport, outcome) ==
    [op |-> op, args |-> a, sent |-> sent, resp |-> resp,
     transport |-> transport, outcome |-> outcome]

ChatCompletionStream ==
    /\ pc = "ready"
    /\ \E resp \in StreamResponses :
          call' = Call("create_chat_completion_stream", NoArgs, chat_data(TRUE), resp,
                     request(resp, TRUE), create_chat_completion(resp, TRUE))
    /\ pc' = "done"
    /\ UNCHANGED <<hrVars, batchVars>>

ChatCompletion ==
    /\ pc = "ready"
    /\ \E resp \in Responses :
          call' = Call("create_chat_completion", NoArgs, chat_data(FALSE), resp,
                     request(resp, FALSE), create_chat_completion(resp, FALSE))
    /\ pc' = "done"
    /\ UNCHANGED <<hrVars, batchVars>>

CreateDataset ==
    /\ pc = "ready"
    /\ \E resp \in Responses,
          a \in Args({"embedding_model", "description", "parser_config"}) :
          call' = Call("create_dataset", a, create_dataset_data(a), resp,
                     request(resp, FALSE), create_dataset(resp))
    /\ pc' = "done"
    /\ UNCHANGED <<hrVars, batchVars>>

ListDatasets ==
    /\ pc = "ready"
    /\ \E resp \in Responses, a \in Args({"name", "dataset_id"}) :
          call' = Call("list_datasets", a, list_datasets_params(a), resp,
                     request(resp, FALSE), list_datasets(resp))
    /\ pc' = "done"
    /\ UNCHANGED <<hrVars, batchVars>>

DeleteDatasets ==
    /\ pc = "ready"
    /\ \E resp \in Responses :
          call' = Call("delete_datasets", NoArgs, [ids |-> Required], resp,
                     request(resp, FALSE), request_only(resp))
    /\ pc' = "done"
    /\ UNCHANGED <<hrVars, batchVars>>

UpdateDataset ==
    /\ pc = "ready"
    /\ \E resp \in Responses,
          a \in Args({"name", "embedding_model", "chunk_method"}) :
          call' = Call("update_dataset", a, truthy_data(a), resp,
                     request(resp, FALSE), request_only(resp))
    /\ pc' = "done"
    /\ UNCHANGED <<hrVars, batchVars>>

UploadDocuments ==
    /\ pc = "ready"
    /\ \E resp \in Responses :
          call' = Call("upload_documents", NoArgs, NoData, resp, Pending,
                     upload_documents(resp))
    /\ pc' = "done"
    /\ UNCHANGED <<hrVars, batchVars>>

UpdateDocument ==
    /\ pc = "ready"
    /\ \E resp \in Responses,
          a \in Args({"name", "meta_fields", "chunk_method", "parser_config"}) :
          call' = Call("update_document", a, truthy_data(a), resp,
                     request(resp, FALSE), request_only(resp))
    /\ pc' = "done"
    /\ UNCHANGED <<hrVars, batchVars>>

DownloadDocument ==
    /\ pc = "ready"
    /\ \E resp \in Responses :
          call' = Call("download_document", NoArgs, NoData, resp, Pending,
                     download_document(resp))
    /\ pc' = "done"
    /\ UNCHANGED <<hrVars, batchVars>>

ListChunks ==
    /\ pc = "ready"
    /\ \E resp \in Responses :
          call' = Call("list_chunks", NoArgs, list_chunks_params, resp,
                     request(resp, FALSE), list_chunks(resp))
    /\ pc' = "done"
    /\ UNCHANGED <<hrVars, batchVars>>

RetrieveChunks ==
    /\ pc = "ready"
    /\ \E resp \in Responses,
          a \in Args({"dataset_ids", "document_ids", "rerank_id"}) :
          call' = Call("retrieve_chunks", a, retrieve_chunks_data(a), resp,
                     request(resp, FALSE), request_handled(resp))
    /\ pc' = "done"
    /\ UNCHANGED <<hrVars, batchVars>>

GetChunk ==
    /\ pc = "ready"
    /\ \E resp \in Responses :
          call' = Call("get_chunk", NoArgs, NoData, resp,
                     request(resp, FALSE), get_chunk(resp))
    /\ pc' = "done"
    /\ UNCHANGED <<hrVars, batchVars>>

UpdateChunk ==
    /\ pc = "ready"
    /\ \E resp \in Responses, a \in Args({"chunk_token_count", "delimiter"}) :
          call' = Call("update_chunk", a, not_none_data(a), resp,
                     request(resp, FALSE), request_only(resp))
    /\ pc' = "done"
    /\ UNCHANGED <<hrVars, batchVars>>

DeleteChunk ==
    /\ pc = "ready"
    /\ \E resp \in Responses :
          call' = Call("delete_chunk", NoArgs, NoData, resp,
                     request(resp, FALSE), request_only(resp))
    /\ pc' = "done"
    /\ UNCHANGED <<hrVars, batchVars>>

ParseDocuments ==
    /\ pc = "ready"
    /\ \E resp \in Responses :
          call' = Call("parse_documents", NoArgs, [document_ids |-> Required], resp,
                     request(resp, FALSE), request_handled(resp))
    /\ pc' = "done"
    /\ UNCHANGED <<hrVars, batchVars>>

\* the caller has the outcome; the client is ready for the next call
Finish ==
    /\ pc = "done"
    /\ pc' = "ready"
    /\ call' = NoCall
    /\ UNCHANGED <<hrVars, batchVars>>

\* the variables of the batch script while no run is modelled
BatchOff ==
    /\ b_pc = "off" /\ api_key = FALSE /\ doc_dir = [kind |-> "missing", entries |-> <<>>]
    /\ datasets = None /\ dataset_id = None
    /\ file_paths = <<>> /\ idx = 0 /\ open_files = {}
    /\ uploaded_doc_ids = <<>> /\ in_flight = Pending /\ parse_result = None
    /\ events = <<>> /\ b_outcome = Pending

Init ==
    /\ pc = "ready" /\ call = NoCall
    /\ hr_pc = "off" /\ response = NoData /\ hr_result = Pending
    /\ BatchOff

Next ==
    \/ ChatCompletionStream \/ ChatCompletion
    \/ CreateDataset \/ ListDatasets \/ DeleteDatasets \/ UpdateDataset
    \/ UploadDocuments \/ UpdateDocument \/ DownloadDocument
    \/ ListChunks \/ RetrieveChunks \/ GetChunk \/ UpdateChunk \/ DeleteChunk
    \/ ParseDocuments
    \/ Finish

Spec == Init /\ [][Next]_vars

-----------------------------------------------------------------------------
(* Specification of handle_response as a pure function *)

HandleInit ==
    /\ hr_pc = "call"
    /\ response \in Mappings
    /\ hr_result = Pending
    /\ pc = "off" /\ call = NoCall
    /\ BatchOff

HandleResponse ==
    /\ hr_pc = "call"
    /\ hr_result' = handle_response(response)
    /\ hr_pc' = "done"
    /\ UNCHANGED <<response, clientVars, batchVars>>

HandleNext == HandleResponse

SpecHandle == HandleInit /\ [][HandleNext]_vars


-----------------------------------------------------------------------------
(* upload_documents_with_parse.py: the selection of the files. A file name *)
(* is the sequence of its characters.                                      *)

SUPPORTED_FILE_TYPES ==
    [word |-> << <<".", "d", "o", "c">>, <<".", "d", "o", "c", "x">> >>,
     pdf |-> << <<".", "p", "d", "f">> >>,
     excel |-> << <<".", "x", "l", "s">>, <<".", "x", "l", "s", "x">> >>,
     markdown |-> << <<".", "m", "d">> >>,
     txt |-> << <<".", "t", "x", "t">> >>]

UpperCase ==
    <<"A", "B", "C", "D", "E", "F", "G", "H", "I", "J", "K", "L", "M",
      "N", "O", "P", "Q", "R", "S", "T", "U", "V", "W", "X", "Y", "Z">>
LowerCase ==
    <<"a", "b", "c", "d", "e", "f", "g", "h", "i", "j", "k", "l", "m",
      "n", "o", "p", "q", "r", "s", "t", "u", "v", "w", "x", "y", "z">>

\* str.lower()
Lower(s) ==
    [i \in DOMAIN s |->
        IF \E j \in DOMAIN UpperCase : UpperCase[j] = s[i]
        THEN LowerCase[CHOOSE j \in DOMAIN UpperCase : UpperCase[j] = s[i]]
        ELSE s[i]]

\* os.path.splitext(filename)[1]: from the last dot on, unless only dots
\* come before it
splitext(filename) ==
    LET dots == {i \in DOMAIN filename : filename[i] = "."}
        dotIndex == IF dots = {} THEN 0 ELSE CHOOSE i \in dots : \A j \in dots : j <= i
    IN  IF dotIndex > 0 /\ \E i \in 1..(dotIndex - 1) : filename[i] # "."
        THEN SubSeq(filename, dotIndex, Len(filename))
        ELSE <<>>

\* any(ext in exts for exts in SUPPORTED_FILE_TYPES.values())
supported(ext) ==
    \E kind \in DOMAIN SUPPORTED_FILE_TYPES :
        \E i \in DOMAIN SUPPORTED_FILE_TYPES[kind] : SUPPORTED_FILE_TYPES[kind][i] = ext

\* a plausible slip: the extension is compared as it is written
selected_case_sensitive(filename) == supported(splitext(filename))

selected(filename) == supported(Lower(splitext(filename)))

\* the loop over os.listdir(doc_dir): the paths kept and the warnings printed
RECURSIVE scan_file_paths(_)
scan_file_paths(entries) ==
    IF entries = <<>> THEN <<>>
    ELSE IF Head(entries).isfile /\ selected(Head(entries).name)
    THEN <<Head(entries).name>> \o scan_file_paths(Tail(entries))
    ELSE scan_file_paths(Tail(entries))

RECURSIVE scan_warnings(_)
scan_warnings(entries) ==
    IF entries = <<>> THEN <<>>
    ELSE IF Head(entries).isfile /\ ~selected(Head(entries).name)
    THEN <<[e |-> "warn_skip", file |-> Head(entries).name]>> \o scan_warnings(Tail(entries))
    ELSE scan_warnings(Tail(entries))

-----------------------------------------------------------------------------
(* What the script can meet: the directory and the server's answers *)

MaxDirEntries == 3

File(name) == [name |-> name, isfile |-> TRUE, inside |-> <<>>]
Directory(name, inside) == [name |-> name, isfile |-> FALSE, inside |-> inside]

a_pdf == <<"a", ".", "p", "d", "f">>
b_exe == <<"b", ".", "e", "x", "e">>
c_docx == <<"c", ".", "d", "o", "c", "x">>
D_PDF == <<"D", ".", "P", "D", "F">>
dot_pdf == <<".", "p", "d", "f">>
s_pdf == <<"s", ".", "p", "d", "f">>

DirEntries ==
    {File(a_pdf), File(b_exe), File(c_docx), File(D_PDF), File(dot_pdf),
     Directory(s_pdf, <<File(a_pdf)>>)}

\* os.listdir: the entries in any order, no name twice
Listings ==
    {es \in SeqsUpTo(DirEntries, MaxDirEntries) :
        \A i, j \in DOMAIN es : i # j => es[i].name # es[j].name}

DocDirs ==
    {[kind |-> "missing", entries |-> <<>>], [kind |-> "file", entries |-> <<>>]}
    \cup {[kind |-> "dir", entries |-> es] : es \in Listings}

\* the `code` of the envelope the server answers with
BodyCode(resp) == Get(resp.body.value.map, "code", None)

Answer(status, map) == [status |-> status, body |-> JsonBody(JObj(map)), lines |-> <<>>]

BatchListResponses ==
    {Answer(200, [code |-> JInt(0), data |-> JList(<<DatasetPayload>>)]),
     Answer(200, [code |-> JInt(0), data |-> JList(<<>>)]),
     Answer(200, [code |-> JInt(102), message |-> JStr("m1")]),
     Answer(401, [message |-> JStr("m1")])}

BatchUploadResponses(file) ==
    {Answer(200, [code |-> JInt(0), data |-> JList(<<Doc(file)>>)]),
     Answer(200, [code |-> JInt(0), data |-> JList(<<>>)]),
     Answer(200, [code |-> JInt(102), message |-> JStr("m1")]),
     Answer(500, [message |-> JStr("m1")])}

BatchParseResponses ==
    {Answer(200, [code |-> JInt(0)]),
     Answer(200, [code |-> JInt(0), data |-> None]),
     Answer(200, [code |-> JInt(0), data |-> JObj([id |-> JStr("d1")])]),
     Answer(200, [code |-> JInt(0), data |-> JBool(TRUE)]),
     Answer(200, [code |-> JInt(102), message |-> JStr("m1")]),
     Answer(500, [message |-> JStr("m1")])}

-----------------------------------------------------------------------------
(* upload_and_parse_documents, stage by stage. Both except clauses print   *)
(* the error and raise it again, so every exception ends the run.          *)

Fail(exception) ==
    /\ b_pc' = "raised"
    /\ b_outcome' = exception

\* the branch on the result of the lookup: a slip that follows the
\* docstring and goes on with a dataset created on the spot
resolve_auto_create(found) ==
    IF ~Truthy(found) THEN Return(JStr("created"))
    ELSE Return(found.items[1].fields["id"])

\* the branch on the result of the lookup: the id of the first dataset, or
\* ResourceNotFoundError
resolve(found) ==
    IF ~Truthy(found) THEN Raise("ResourceNotFoundError", <<"dataset does not exist">>)
    ELSE Return(found.items[1].fields["id"])

\* client = RagFlowClient()
ClientInit ==
    /\ b_pc = "start"
    /\ IF api_key
       THEN b_pc' = "resolve" /\ UNCHANGED b_outcome
       ELSE Fail(Raise("AuthenticationError", <<"API key is required">>))
    /\ UNCHANGED <<api_key, doc_dir, datasets, dataset_id, file_paths, idx, open_files,
                   uploaded_doc_ids, in_flight, parse_result, events>>
    /\ UNCHANGED <<hrVars, clientVars>>

\* step 1: client.list_datasets(name=dataset_name) and the branch on it
ResolveDataset ==
    /\ b_pc = "resolve"
    /\ \E resp \in BatchListResponses :
          LET found == list_datasets(resp)
              id == resolve(found.value)
          IN  /\ events' = Append(events, [e |-> "list_datasets"])
              /\ IF Raised(found)
                 THEN Fail(found) /\ UNCHANGED <<datasets, dataset_id>>
                 ELSE /\ datasets' = found.value
                      /\ IF Raised(id)
                         THEN Fail(id) /\ UNCHANGED dataset_id
                         ELSE b_pc' = "scan" /\ dataset_id' = id.value /\ UNCHANGED b_outcome
    /\ UNCHANGED <<api_key, doc_dir, file_paths, idx, open_files, uploaded_doc_ids,
                   in_flight, parse_result>>
    /\ UNCHANGED <<hrVars, clientVars>>

\* step 2: the checks of doc_dir and the loop over os.listdir(doc_dir)
ScanDirectory ==
    /\ b_pc = "scan"
    /\ IF doc_dir.kind = "missing"
       THEN /\ Fail(Raise("FileNotFoundError", <<"directory does not exist">>))
            /\ events' = Append(events, [e |-> "scan"])
            /\ UNCHANGED <<file_paths, idx>>
       ELSE IF doc_dir.kind = "file"
       THEN /\ Fail(Raise("NotADirectoryError", <<"path is not a directory">>))
            /\ events' = Append(events, [e |-> "scan"])
            /\ UNCHANGED <<file_paths, idx>>
       ELSE /\ file_paths' = scan_file_paths(doc_dir.entries)
            /\ events' = Append(events, [e |-> "scan"]) \o scan_warnings(doc_dir.entries)
            /\ IF scan_file_paths(doc_dir.entries) = <<>>
               THEN b_pc' = "done" /\ b_outcome' = Return(None) /\ UNCHANGED idx
               ELSE b_pc' = "open" /\ idx' = 1 /\ UNCHANGED b_outcome
    /\ UNCHANGED <<api_key, doc_dir, datasets, dataset_id, open_files, uploaded_doc_ids,
                   in_flight, parse_result>>
    /\ UNCHANGED <<hrVars, clientVars>>

\* step 3, `with open(file_path, "rb") as f:`
OpenFile ==
    /\ b_pc = "open"
    /\ open_files' = open_files \cup {file_paths[idx]}
    /\ events' = Append(events, [e |-> "open", file |-> file_paths[idx]])
    /\ b_pc' = "upload"
    /\ UNCHANGED <<api_key, doc_dir, datasets, dataset_id, file_paths, idx,
                   uploaded_doc_ids, in_flight, parse_result, b_outcome>>
    /\ UNCHANGED <<hrVars, clientVars>>

\* docs[0].get("id")
first_doc_id(docs) ==
    IF docs.t # "list" THEN Raise("TypeError", <<"object is not subscriptable">>)
    ELSE IF docs.items[1].t # "obj" THEN NoGet
    ELSE Return(Get(docs.items[1].map, "id", None))

\* step 3, the body of the `with` block: client.upload_documents and the
\* branch on its result
UploadFile ==
    /\ b_pc = "upload"
    /\ \E resp \in BatchUploadResponses(file_paths[idx]) :
          LET docs == upload_documents(resp)
              doc_id == first_doc_id(docs.value)
              upload(result) == [e |-> "upload", file |-> file_paths[idx],
                                 status |-> resp.status, result |-> result]
          IN  IF Raised(docs)
              THEN /\ in_flight' = docs
                   /\ events' = Append(events, upload("raised"))
                   /\ UNCHANGED uploaded_doc_ids
              ELSE IF ~Truthy(docs.value)
              THEN /\ events' = events \o <<upload("empty"),
                                   [e |-> "warn_upload", file |-> file_paths[idx]]>>
                   /\ UNCHANGED <<uploaded_doc_ids, in_flight>>
              ELSE IF Raised(doc_id)
              THEN /\ in_flight' = doc_id
                   /\ events' = Append(events, upload("raised"))
                   /\ UNCHANGED uploaded_doc_ids
              ELSE /\ uploaded_doc_ids' = Append(uploaded_doc_ids, doc_id.value)
                   /\ events' = Append(events, upload("doc"))
                   /\ UNCHANGED in_flight
    /\ b_pc' = "close"
    /\ UNCHANGED <<api_key, doc_dir, datasets, dataset_id, file_paths, idx, open_files,
                   parse_result, b_outcome>>
    /\ UNCHANGED <<hrVars, clientVars>>

\* a plausible slip: the file is opened without `with` and never closed
CloseFile_leak ==
    /\ b_pc = "close"
    /\ events' = events
    /\ IF Raised(in_flight)
       THEN Fail(in_flight) /\ UNCHANGED idx
       ELSE IF idx < Len(file_paths)
       THEN b_pc' = "open" /\ idx' = idx + 1 /\ UNCHANGED b_outcome
       ELSE IF uploaded_doc_ids = <<>>
       THEN b_pc' = "done" /\ b_outcome' = Return(None) /\ UNCHANGED idx
       ELSE b_pc' = "parse" /\ UNCHANGED <<idx, b_outcome>>
    /\ UNCHANGED <<api_key, doc_dir, datasets, dataset_id, file_paths, uploaded_doc_ids,
                   in_flight, parse_result, open_files>>
    /\ UNCHANGED <<hrVars, clientVars>>

\* step 3, leaving the `with` block: the file is closed, then the exception
\* goes on, or the loop does, or the loop ends
CloseFile ==
    /\ b_pc = "close"
    /\ open_files' = open_files \ {file_paths[idx]}
    /\ events' = Append(events, [e |-> "close", file |-> file_paths[idx]])
    /\ IF Raised(in_flight)
       THEN Fail(in_flight) /\ UNCHANGED idx
       ELSE IF idx < Len(file_paths)
       THEN b_pc' = "open" /\ idx' = idx + 1 /\ UNCHANGED b_outcome
       ELSE IF uploaded_doc_ids = <<>>
       THEN b_pc' = "done" /\ b_outcome' = Return(None) /\ UNCHANGED idx
       ELSE b_pc' = "parse" /\ UNCHANGED <<idx, b_outcome>>
    /\ UNCHANGED <<api_key, doc_dir, datasets, dataset_id, file_paths, uploaded_doc_ids,
                   in_flight, parse_result>>
    /\ UNCHANGED <<hrVars, clientVars>>

\* step 4: client.parse_documents and the report on parse_result.get("code")
TriggerParse ==
    /\ b_pc = "parse"
    /\ \E resp \in BatchParseResponses :
          LET result == request_handled(resp)
              parse == [e |-> "parse", document_ids |-> uploaded_doc_ids,
                        accepted |-> resp.status < 400 /\ ~NotEqualZero(BodyCode(resp))]
          IN  IF Raised(result)
              THEN /\ Fail(result)
                   /\ events' = Append(events, parse)
                   /\ UNCHANGED parse_result
              ELSE /\ parse_result' = result.value
                   /\ IF result.value.t # "obj"
                      THEN Fail(NoGet) /\ events' = Append(events, parse)
                      ELSE /\ b_pc' = "done" /\ b_outcome' = Return(None)
                           /\ events' = events \o
                                <<parse,
                                  IF ~NotEqualZero(Get(result.value.map, "code", None))
                                  THEN [e |-> "info_parse_submitted"]
                                  ELSE [e |-> "warn_parse_failed"]>>
    /\ UNCHANGED <<api_key, doc_dir, datasets, dataset_id, file_paths, idx, open_files,
                   uploaded_doc_ids, in_flight>>
    /\ UNCHANGED <<hrVars, clientVars>>

BatchInit ==
    /\ b_pc = "start"
    /\ api_key \in BOOLEAN
    /\ doc_dir \in DocDirs
    /\ datasets = None /\ dataset_id = None
    /\ file_paths = <<>> /\ idx = 0 /\ open_files = {}
    /\ uploaded_doc_ids = <<>> /\ in_flight = Pending /\ parse_result = None
    /\ events = <<>> /\ b_outcome = Pending
    /\ pc = "off" /\ call = NoCall
    /\ hr_pc = "off" /\ response = NoData /\ hr_result = Pending

BatchNext ==
    \/ ClientInit \/ ResolveDataset \/ ScanDirectory
    \/ OpenFile \/ UploadFile \/ CloseFile
    \/ TriggerParse

SpecBatch == BatchInit /\ [][BatchNext]_vars

-----------------------------------------------------------------------------
(* Claims about the client *)

IsObjectBody(resp) == resp.body.kind = "json" /\ resp.body.value.t = "obj"
BodyMap(resp) == resp.body.value.map

\* the exception type the taxonomy gives a status >= 400
Taxonomy(status) ==
    IF status = 401 THEN "AuthenticationError"
    ELSE IF status = 404 THEN "ResourceNotFoundError"
    ELSE "APIError"

Carries(outcome, text) == \E i \in DOMAIN outcome.message : outcome.message[i] = text

\* C1: a non-streamed _request whose answer has status >= 400 and a JSON
\* object body with a `message` raises the error the status maps to (401
\* AuthenticationError, 404 ResourceNotFoundError, else APIError), the error
\* carries that message, and the body is not returned.
C1_RequestRaisesMappedError ==
    (/\ pc = "done"
     /\ call.transport # Pending
     /\ call.op # "create_chat_completion_stream"
     /\ call.resp.status >= 400
     /\ IsObjectBody(call.resp)
     /\ "message" \in DOMAIN BodyMap(call.resp))
    => /\ Raised(call.transport)
       /\ call.transport.exc = Taxonomy(call.resp.status)
       /\ Carries(call.transport, BodyMap(call.resp)["message"].s)

C1_Witness ==
    /\ pc = "done"
    /\ call.op = "delete_datasets"
    /\ call.resp.status = 404
    /\ IsObjectBody(call.resp)
    /\ "message" \in DOMAIN BodyMap(call.resp)
    /\ call.transport = Raise("ResourceNotFoundError", <<"m2">>)

NonZeroCode(resp) ==
    /\ IsObjectBody(resp)
    /\ "code" \in DOMAIN BodyMap(resp)
    /\ BodyMap(resp)["code"] = JInt(102)

\* C2 (as stated): every facade method other than the non-streaming chat
\* completion raises whenever the server answers with a status >= 400 or
\* with an envelope whose `code` is not 0; it never returns normally then.
C2_AsStated ==
    (/\ pc = "done"
     /\ call.op # "create_chat_completion"
     /\ (call.resp.status >= 400 \/ NonZeroCode(call.resp)))
    => Raised(call.outcome)

APIErrorCondition(resp) ==
    \/ resp.status >= 400 /\ resp.status \notin {401, 404}
    \/ resp.body.kind = "invalid"
    \/ NonZeroCode(resp)

\* C4 (as stated): the non-streaming create_chat_completion returns null
\* whenever the call fails with an APIError condition: a status >= 400 other
\* than 401 and 404, a body that is no JSON, or an envelope with a non-zero
\* `code`.
C4_AsStated ==
    (/\ pc = "done"
     /\ call.op = "create_chat_completion"
     /\ APIErrorCondition(call.resp))
    => call.outcome = Return(None)

\* C4 (amended): the non-streaming create_chat_completion returns null when
\* the answer has a status below 400 and is a JSON object whose `code` is not
\* 0; the APIError of the transport (a body that is no JSON, or a status >= 400
\* other than 401 and 404 with a JSON object body) is raised to the caller.
C4_ChatCompletionSwallowsEnvelopeErrorOnly ==
    (pc = "done" /\ call.op = "create_chat_completion")
    => /\ (call.resp.status < 400 /\ NonZeroCode(call.resp))
            => call.outcome = Return(None)
       /\ call.resp.body.kind = "invalid"
            => Raised(call.outcome) /\ call.outcome.exc = "APIError"
       /\ (/\ IsObjectBody(call.resp)
           /\ call.resp.status >= 400
           /\ call.resp.status \notin {401, 404})
            => Raised(call.outcome) /\ call.outcome.exc = "APIError"

C4_Witness ==
    /\ pc = "done"
    /\ call.op = "create_chat_completion"
    /\ call.resp.status = 200
    /\ NonZeroCode(call.resp)
    /\ call.outcome = Return(None)

\* the text of a line after removing a literal leading `data: `, and nothing else
LiteralRemainder(line) ==
    IF Len(line) >= Len(DataPrefix) /\ SubSeq(line, 1, Len(DataPrefix)) = DataPrefix
    THEN SubSeq(line, Len(DataPrefix) + 1, Len(line))
    ELSE line

RECURSIVE ReferenceChunks(_)
ReferenceChunks(lines) ==
    IF lines = <<>> THEN <<>>
    ELSE IF IsJson(LiteralRemainder(Head(lines)))
    THEN <<Loads(LiteralRemainder(Head(lines)))>> \o ReferenceChunks(Tail(lines))
    ELSE ReferenceChunks(Tail(lines))

\* C5 (as stated): the streaming create_chat_completion returns, in stream
\* order, the JSON values of exactly the non-blank lines whose text parses as
\* JSON after a literal leading `data: ` is removed; the other lines add
\* nothing and raise nothing.
C5_AsStated ==
    (pc = "done" /\ call.op = "create_chat_completion_stream")
    => call.outcome = Return(JList(ReferenceChunks(call.resp.lines)))

\* C8 (as stated): upload_documents and download_document raise by the same
\* taxonomy as the other methods: AuthenticationError on 401,
\* ResourceNotFoundError on 404, APIError on the other statuses >= 400.
C8_AsStated ==
    (/\ pc = "done"
     /\ call.op \in {"upload_documents", "download_document"}
     /\ call.resp.status >= 400
     /\ IsObjectBody(call.resp))
    => Raised(call.outcome) /\ call.outcome.exc = Taxonomy(call.resp.status)

\* the key an optional argument is sent under
KeyOf(arg) == IF arg = "dataset_id" THEN "id" ELSE arg

\* C10 (as stated): no optional argument the caller left unset (None) is a
\* key of the body or of the query parameters the method sends.
C10_AsStated ==
    pc = "done"
    => \A arg \in DOMAIN call.args :
          call.args[arg] = None => KeyOf(arg) \notin DOMAIN call.sent

-----------------------------------------------------------------------------
(* Claims about the batch script *)

Ended == b_pc \in {"done", "raised"}
EventsOf(kind) == {i \in DOMAIN events : events[i].e = kind}
Range(seq) == {seq[i] : i \in DOMAIN seq}

\* C6 (as stated): a failed upload of one file (the server rejecting it with
\* an error status, or the upload returning no document record) does not
\* abort the run: a warning is printed for the file, every remaining selected
\* file is still uploaded, and parsing is still triggered for the documents
\* that did upload.
C6_AsStated ==
    (Ended /\ EventsOf("upload") # {})
    => /\ \A i \in EventsOf("upload") :
            events[i].result # "doc"
            => \E j \in EventsOf("warn_upload") : events[j].file = events[i].file
       /\ \A f \in Range(file_paths) : \E i \in EventsOf("upload") : events[i].file = f
       /\ uploaded_doc_ids # <<>> => EventsOf("parse") # {}

\* C6 (amended): an upload that returns no document record (an answer below
\* 400 whose `data` is empty or absent) does not abort the run: a warning is
\* printed for the file, the remaining selected files are still uploaded and
\* parsing is still triggered for the documents that did upload. An upload
\* the server rejects with a status >= 400 raises APIError, which ends the
\* run: the file is closed, no further file is uploaded and parsing is not
\* triggered.
C6_EmptyUploadWarnsRejectedUploadAborts ==
    /\ \A i \in EventsOf("upload") :
          events[i].result = "empty"
          => /\ events[i].status < 400
             /\ i < Len(events)
             /\ events[i + 1] = [e |-> "warn_upload", file |-> events[i].file]
    /\ \A i \in EventsOf("upload") :
          events[i].status >= 400
          => /\ events[i].result = "raised"
             /\ \A j \in DOMAIN events : j > i => events[j].e = "close"
             /\ Ended => b_pc = "raised" /\ b_outcome.exc = "APIError"
    /\ (/\ Ended
        /\ EventsOf("upload") # {}
        /\ \A i \in EventsOf("upload") : events[i].result # "raised")
       => /\ \A f \in Range(file_paths) : \E i \in EventsOf("upload") : events[i].file = f
          /\ uploaded_doc_ids # <<>>
                => \E j \in EventsOf("parse") : events[j].document_ids = uploaded_doc_ids

C6_Witness ==
    /\ b_pc = "done"
    /\ \E i, j \in EventsOf("upload") :
          i < j /\ events[i].result = "empty" /\ events[j].result = "doc"
    /\ EventsOf("warn_upload") # {}
    /\ EventsOf("parse") # {}

Allowlist ==
    { <<".", "d", "o", "c">>, <<".", "d", "o", "c", "x">>, <<".", "p", "d", "f">>,
      <<".", "x", "l", "s">>, <<".", "x", "l", "s", "x">>, <<".", "m", "d">>,
      <<".", "t", "x", "t">> }

\* the name ends, whatever the case of its letters, with an extension of the
\* allowlist, after a stem that is not made of dots alone
HasAllowedExtension(name) ==
    \E ext \in Allowlist :
        /\ Len(name) > Len(ext)
        /\ \A i \in 1..Len(ext) :
              LET c == name[Len(name) - Len(ext) + i]
              IN  c = ext[i] \/ \E j \in DOMAIN UpperCase : UpperCase[j] = c /\ LowerCase[j] = ext[i]
        /\ \E i \in 1..(Len(name) - Len(ext)) : name[i] # "."

\* C9: the script selects exactly the regular files directly in the directory
\* whose extension, compared without regard to case, is in the allowlist
\* {.doc, .docx, .pdf, .xls, .xlsx, .md, .txt}; every other regular file is
\* skipped with a warning and without an error.
C9_SelectsAllowlistedFiles ==
    (doc_dir.kind = "dir" /\ EventsOf("scan") # {})
    => /\ Range(file_paths) =
            {doc_dir.entries[i].name : i \in
                {i \in DOMAIN doc_dir.entries :
                    doc_dir.entries[i].isfile /\ HasAllowedExtension(doc_dir.entries[i].name)}}
       /\ Cardinality(Range(file_paths)) = Len(file_paths)
       /\ {events[i].file : i \in EventsOf("warn_skip")} =
            {doc_dir.entries[i].name : i \in
                {i \in DOMAIN doc_dir.entries :
                    doc_dir.entries[i].isfile /\ ~HasAllowedExtension(doc_dir.entries[i].name)}}
       /\ b_pc = "raised" => EventsOf("upload") # {}

C9_Witness ==
    /\ doc_dir.kind = "dir"
    /\ doc_dir.entries = <<File(a_pdf), File(b_exe), File(c_docx)>>
    /\ file_paths = <<a_pdf, c_docx>>
    /\ \E i \in EventsOf("warn_skip") : events[i].file = b_exe
    /\ b_pc = "open"

\* the ids returned by the uploads that returned a document, in upload order
RECURSIVE ReturnedIds(_)
ReturnedIds(evs) ==
    IF evs = <<>> THEN <<>>
    ELSE IF Head(evs).e = "upload" /\ Head(evs).result = "doc"
    THEN <<JStr(Head(evs).file)>> \o ReturnedIds(Tail(evs))
    ELSE ReturnedIds(Tail(evs))

\* C11: the stages run in the order resolve-dataset, scan, upload, parse;
\* parse_documents is called at most once, only after an upload was attempted
\* for every selected file, with exactly one file open during each upload;
\* its id list is, in upload order, the ids returned for the files whose
\* upload returned a document, and it is not called when that list is empty.
C11_StagesInOrderParseOnceAfterUploads ==
    /\ \A i \in EventsOf("scan") : \E j \in EventsOf("list_datasets") : j < i
    /\ \A i \in EventsOf("open") \cup EventsOf("upload") :
          \E j \in EventsOf("scan") : j < i
    /\ Cardinality(EventsOf("parse")) <= 1
    /\ \A p \in EventsOf("parse") :
          /\ \A i \in EventsOf("open") \cup EventsOf("upload") \cup EventsOf("close") : i < p
          /\ \A k \in DOMAIN file_paths :
                \E i \in EventsOf("upload") : events[i].file = file_paths[k]
          /\ events[p].document_ids = ReturnedIds(SubSeq(events, 1, p - 1))
          /\ events[p].document_ids # <<>>
    /\ Cardinality(EventsOf("upload")) <= Len(file_paths)
    /\ \A i \in EventsOf("upload") :
          /\ i > 1 /\ events[i - 1] = [e |-> "open", file |-> events[i].file]
          /\ events[i].file = file_paths[Cardinality({j \in EventsOf("upload") : j <= i})]
    /\ b_pc \in {"upload", "close"} => open_files = {file_paths[idx]}
    /\ b_pc \notin {"upload", "close"} => open_files = {}
    /\ (Ended /\ ReturnedIds(events) = <<>>) => EventsOf("parse") = {}

C11_Witness ==
    /\ b_pc = "done"
    /\ Len(file_paths) = 3
    /\ \E p \in EventsOf("parse") :
          events[p].document_ids = <<JStr(file_paths[1]), JStr(file_paths[3])>>
    /\ \E i \in EventsOf("upload") : events[i].file = file_paths[2] /\ events[i].result = "empty"

\* C12 (as stated): whenever the server accepts the parse trigger (envelope
\* `code` 0, with or without a `data` field) the script reports the request
\* as submitted, and the parse-failure warning is printed only when the server
\* did not accept the request.
C12_AsStated ==
    /\ \A p \in EventsOf("parse") :
          (Ended /\ events[p].accepted) => EventsOf("info_parse_submitted") # {}
    /\ \A w \in EventsOf("warn_parse_failed") :
          \E p \in EventsOf("parse") : p < w /\ ~events[p].accepted

-----------------------------------------------------------------------------
\* C3 (as stated): handle_response raises APIError when `code` is not 0,
\* returns the value of `data` when `code` is 0 and `data` is present, the
\* full envelope when `code` is 0 and `data` is absent, and the mapping
\* unchanged when there is no `code` field.
C3_AsStated ==
    hr_pc = "done" =>
        IF "code" \in DOMAIN response
        THEN IF response["code"] # JInt(0)
             THEN Raised(hr_result) /\ hr_result.exc = "APIError"
             ELSE IF "data" \in DOMAIN response
                  THEN hr_result = Return(response["data"])
                  ELSE hr_result = Return(JObj(response))
        ELSE hr_result = Return(JObj(response))

\* C3 (amended): `code` counts as 0 when it compares equal to 0 in Python
\* (the integer 0 or the boolean false); with such a code the value of `data`
\* is returned only when `data` is present and not null, and the full
\* envelope is returned when `data` is absent or null.
C3_HandleResponse ==
    hr_pc = "done" =>
        IF "code" \in DOMAIN response
        THEN IF response["code"] \notin {JInt(0), JBool(FALSE)}
             THEN Raised(hr_result) /\ hr_result.exc = "APIError"
             ELSE IF "data" \in DOMAIN response /\ response["data"] # None
                  THEN hr_result = Return(response["data"])
                  ELSE hr_result = Return(JObj(response))
        ELSE hr_result = Return(JObj(response))

C3_Witness ==
    /\ hr_pc = "done"
    /\ "code" \in DOMAIN response /\ response["code"] = JInt(0)
    /\ "data" \in DOMAIN response /\ response["data"] = None
    /\ hr_result = Return(JObj(response))

====
